---- MODULE Spec2Model ----
(***************************************************************************)
(* Model of src/core/scripting.c: the script bridge (engine registry) that *)
(* owns the installed script engines and fans lifecycle events out to     *)
(* them, and its association with a debugger.                             *)
(*                                                                         *)
(* Every operation of the bridge is one action.  The hooks an operation   *)
(* invokes on engines, and the other externally visible steps it takes    *)
(* (closing the file handle, releasing the table, linking a debugger),    *)
(* are recorded in order in `calls`, which holds the log of the call in   *)
(* progress: the host makes one call at a time (the calls are synchronous *)
(* and made from a single thread), and `Return` hands control back to it. *)
(*                                                                         *)
(* The memory region adapter (segmented address translation) and the      *)
(* register accessors of the core are modelled by specifications of their *)
(* own, SpecAddr and SpecReg, over their own variables; each              *)
(* specification leaves the variables of the others at their initial      *)
(* values.                                                                *)
(***************************************************************************)
EXTENDS Integers, Sequences, FiniteSets, TLC

\* ------------------------------------------------------------------ bounds
NumEngines == 4
NumNames == 3
NumDebuggers == 2
MaxVal == 1

\* --------------------------------------------------------------- universe
NULL == 0
Engines == 1 .. NumEngines
Debuggers == 1 .. NumDebuggers
Bridges == {1, 2}
\* The bridge whose operations Spec models.
sb == 1
Values == 0 .. MaxVal
NoSymbol == -1

\* se->name(se): the key an engine registers under.  Several engines may
\* report the same name.
EngineName(se) == ((se - 1) % NumNames) + 1

VARIABLES
  alive,      \* the bridge has been created and not destroyed
  engines,    \* sb->engines: name -> engine
  debugger,   \* debugger[b]: the debugger field of bridge b
  bridge,     \* bridge[d]: the bridge field of debugger d
  out,        \* the int32_t the caller of lookupSymbol passes as `out`
  openFiles,  \* number of VFile handles opened and not yet closed
  status,     \* history, per engine: "new" (never offered), "installed",
              \* "rejected" (init failed while it was not in the table) or
              \* "replaced" (another engine took its name)
  op,         \* the call the host is making: its inputs and its result
  calls,      \* the log of that call
  region,     \* SpecAddr: adapter->block of the region adapter under test
  access,     \* SpecAddr: the last call on that adapter and what it passed
              \* to the machine's raw accessors
  registers,  \* SpecReg: the machine's registers, name -> value
  regop,      \* SpecReg: the last register call of a script and its result
  program,    \* SpecMem: the program each machine has loaded
  weakrefs,   \* SpecMem: context->weakrefs, id -> value
  nextWeakref,\* SpecMem: context->nextWeakref
  rootScope,  \* SpecMem: context->rootScope, the global bindings
  issued,     \* SpecMem: the ids of all region adapters issued so far
  memop       \* SpecMem: the last call of attachCore / detachCore

bridgeVars ==
  <<alive, engines, debugger, bridge, out, openFiles, status, op, calls>>
addrVars == <<region, access>>
regVars == <<registers, regop>>
memVars == <<program, weakrefs, nextWeakref, rootScope, issued, memop>>

vars == <<bridgeVars, addrVars, regVars, memVars>>

\* ------------------------------------------------------------- hash table
\* The table is a function from keys to values.  An enumeration visits every
\* entry once, in an order the table does not specify.
Range(f) == {f[k] : k \in DOMAIN f}

EmptyTable == [k \in {} |-> NULL]

\* The orders in which an enumeration may visit the keys of a table.
RECURSIVE OrdersOf(_)
OrdersOf(keys) ==
  IF keys = {} THEN {<<>>}
  ELSE UNION {{<<k>> \o rest : rest \in OrdersOf(keys \ {k})} : k \in keys}

Orders(table) == OrdersOf(DOMAIN table)

\* Insert or overwrite the entry under key.
HashTableInsert(table, key, value) ==
  [k \in DOMAIN table \cup {key} |-> IF k = key THEN value ELSE table[k]]

\* ------------------------------------------------------------------ events
Ev(hook, se) == <<hook, se>>

EventsOf(log, hook) == {i \in DOMAIN log : log[i][1] = hook}

EngineHooks ==
  {"isScript", "loadScript", "lookupSymbol", "run", "debuggerEntered", "deinit"}

NoOp == [kind |-> "idle", arg |-> NULL, opened |-> FALSE, result |-> FALSE,
         order |-> <<>>, ans1 |-> <<>>, ans2 |-> <<>>, before |-> EmptyTable]

\* ------------------------------------------------------------ enumerators
_seDeinit(se, log) == Append(log, Ev("deinit", se))

\* Variant: loads without regard to what isScript answered.
_seTryLoad_noSniff(se, si, isS, ldS) ==
  IF ~si.success
  THEN [si EXCEPT !.success = ldS[se],
                  !.log = @ \o <<Ev("isScript", se), Ev("loadScript", se)>>]
  ELSE si

\* Variant: keeps offering the script after an engine has accepted it.
_seTryLoad_noStop(se, si, isS, ldS) ==
  IF isS[se]
  THEN [si EXCEPT !.success = ldS[se],
                  !.log = @ \o <<Ev("isScript", se), Ev("loadScript", se)>>]
  ELSE [si EXCEPT !.log = Append(@, Ev("isScript", se))]

_seTryLoad(se, si, isS, ldS) ==
  IF ~si.success
  THEN IF isS[se]
       THEN [si EXCEPT !.success = ldS[se],
                       !.log = @ \o <<Ev("isScript", se), Ev("loadScript", se)>>]
       ELSE [si EXCEPT !.log = Append(@, Ev("isScript", se))]
  ELSE si

\* Variant: keeps asking after an engine has resolved the symbol.
_seLookupSymbol_noStop(se, si, sym) ==
  [si EXCEPT !.success = (sym[se] # NoSymbol),
             !.out = IF sym[se] # NoSymbol THEN sym[se] ELSE @,
             !.log = Append(@, Ev("lookupSymbol", se))]

\* sym[se] is what the engine's lookupSymbol hook resolves the name to:
\* NoSymbol when it does not know it, else the value it writes through out.
_seLookupSymbol(se, si, sym) ==
  IF ~si.success
  THEN [si EXCEPT !.success = (sym[se] # NoSymbol),
                  !.out = IF sym[se] # NoSymbol THEN sym[se] ELSE @,
                  !.log = Append(@, Ev("lookupSymbol", se))]
  ELSE si

_seRun(se, log) == Append(log, Ev("run", se))

_seDebuggerEnter(se, log) == Append(log, Ev("debuggerEntered", se))

\* The enumeration callbacks, by name.  hooks holds what the engines' hooks
\* answer during this enumeration.
Callback(handler, se, user, hooks) ==
  CASE handler = "_seDeinit" -> _seDeinit(se, user)
    [] handler = "_seTryLoad" -> _seTryLoad(se, user, hooks[1], hooks[2])
    [] handler = "_seLookupSymbol" -> _seLookupSymbol(se, user, hooks)
    [] handler = "_seRun" -> _seRun(se, user)
    [] handler = "_seDebuggerEnter" -> _seDebuggerEnter(se, user)

\* Calls the handler on every entry of the table, in the given order of keys,
\* threading user through the calls.
RECURSIVE HashTableEnumerate(_, _, _, _, _)
HashTableEnumerate(table, order, handler, user, hooks) ==
  IF order = <<>> THEN user
  ELSE HashTableEnumerate(table, Tail(order), handler,
                          Callback(handler, table[Head(order)], user, hooks),
                          hooks)

\* -------------------------------------------------------------------- init
\* The bridge as mScriptBridgeCreate leaves it; no debugger is attached to
\* any bridge yet.
BridgeInit ==
  /\ alive = TRUE
  /\ engines = EmptyTable
  /\ debugger = [b \in Bridges |-> NULL]
  /\ bridge = [d \in Debuggers |-> NULL]
  /\ openFiles = 0
  /\ status = [e \in Engines |-> "new"]
  /\ op = NoOp
  /\ calls = <<>>

\* No method of a region adapter has been called.
NoAccess ==
  [kind |-> "idle", address |-> 0, length |-> 0, raw |-> <<>>,
   result |-> NULL]

\* No region adapter is under test.
AddrIdle ==
  /\ region = NULL
  /\ access = NoAccess

\* No machine is under test.
RegIdle ==
  /\ registers = <<>>
  /\ regop = NULL

\* No machine is attached to a script context.
MemIdle ==
  /\ program = NULL
  /\ weakrefs = EmptyTable
  /\ nextWeakref = 1
  /\ rootScope = EmptyTable
  /\ issued = {}
  /\ memop = NULL

Init ==
  /\ BridgeInit
  /\ out \in Values
  /\ AddrIdle
  /\ RegIdle
  /\ MemIdle

\* ---------------------------------------------------- operations, as functions
\* Each returns what the operation leaves behind: its result, the log of the
\* calls it made, and the new value of the state it writes.

\* Variant: releases the table without tearing the engines down.
BridgeDestroy_noDeinit(table, order) ==
  [log |-> <<Ev("free", NULL)>>, table |-> EmptyTable]

BridgeDestroy(table, order) ==
  [log |-> Append(HashTableEnumerate(table, order, "_seDeinit", <<>>, <<>>),
                  Ev("free", NULL)),
   table |-> EmptyTable]

\* Variant: registers the engine whatever its init hook reported.
BridgeInstallEngine_ignoreInit(table, se, initOk, freesOld) ==
  [ok |-> initOk,
   table |-> HashTableInsert(table, EngineName(se), se),
   log |-> <<Ev("init", se), Ev("name", se)>>]

\* Variant: an engine whose name is taken does not displace the holder.
BridgeInstallEngine_keepFirst(table, se, initOk, freesOld) ==
  IF ~initOk
  THEN [ok |-> FALSE, table |-> table, log |-> <<Ev("init", se)>>]
  ELSE [ok |-> TRUE,
        table |-> IF EngineName(se) \in DOMAIN table THEN table
                  ELSE HashTableInsert(table, EngineName(se), se),
        log |-> <<Ev("init", se), Ev("name", se)>>]

\* freesOld: whether the table runs its deinitializer on the value an insert
\* displaces.
BridgeInstallEngine(table, se, initOk, freesOld) ==
  IF ~initOk
  THEN [ok |-> FALSE, table |-> table, log |-> <<Ev("init", se)>>]
  ELSE LET name == EngineName(se)
           old == IF name \in DOMAIN table THEN table[name] ELSE NULL
       IN [ok |-> TRUE,
           table |-> HashTableInsert(table, name, se),
           log |-> <<Ev("init", se), Ev("name", se)>> \o
                   (IF old # NULL /\ old # se /\ freesOld
                    THEN <<Ev("deinit", old)>> ELSE <<>>)]

\* Variant: links the new debugger without detaching the old one.
BridgeSetDebugger_noUnlink(dbg, br, b, d) ==
  IF dbg[b] = d
  THEN [debugger |-> dbg, bridge |-> br, log |-> <<>>]
  ELSE [debugger |-> [dbg EXCEPT ![b] = d],
        bridge |-> IF d # NULL THEN [br EXCEPT ![d] = b] ELSE br,
        log |-> <<Ev("set", d)>> \o
                (IF d # NULL THEN <<Ev("link", d)>> ELSE <<>>)]

BridgeSetDebugger(dbg, br, b, d) ==
  IF dbg[b] = d
  THEN [debugger |-> dbg, bridge |-> br, log |-> <<>>]
  ELSE LET old == dbg[b]
           br1 == IF old # NULL THEN [br EXCEPT ![old] = NULL] ELSE br
           log1 == IF old # NULL THEN <<Ev("unlink", old)>> ELSE <<>>
       IN [debugger |-> [dbg EXCEPT ![b] = d],
           bridge |-> IF d # NULL THEN [br1 EXCEPT ![d] = b] ELSE br1,
           log |-> log1 \o <<Ev("set", d)>> \o
                   (IF d # NULL THEN <<Ev("link", d)>> ELSE <<>>)]

BridgeDebuggerEntered(table, order) ==
  HashTableEnumerate(table, order, "_seDebuggerEnter", <<>>, <<>>)

\* Variant: stops at the first engine.
BridgeRun_firstOnly(table, order) ==
  IF order = <<>> THEN <<>>
  ELSE HashTableEnumerate(table, <<Head(order)>>, "_seRun", <<>>, <<>>)

BridgeRun(table, order) == HashTableEnumerate(table, order, "_seRun", <<>>, <<>>)

\* Variant: consults the engines although the path could not be opened.
BridgeLoadScript_noOpenCheck(table, order, opened, isS, ldS, files) ==
  LET info == [success |-> FALSE, log |-> <<>>]
      done == HashTableEnumerate(table, order, "_seTryLoad", info,
                                   <<isS, ldS>>)
  IN IF ~opened
     THEN [result |-> done.success, log |-> done.log, files |-> files]
     ELSE [result |-> done.success,
           log |-> <<Ev("open", NULL)>> \o done.log \o <<Ev("close", NULL)>>,
           files |-> (files + 1) - 1]

\* Variant: returns as soon as an engine accepted, leaving the handle open.
BridgeLoadScript_leak(table, order, opened, isS, ldS, files) ==
  IF ~opened
  THEN [result |-> FALSE, log |-> <<>>, files |-> files]
  ELSE LET info == [success |-> FALSE, log |-> <<Ev("open", NULL)>>]
           done == HashTableEnumerate(table, order, "_seTryLoad", info,
                                   <<isS, ldS>>)
       IN IF done.success
          THEN [result |-> TRUE, log |-> done.log, files |-> files + 1]
          ELSE [result |-> FALSE,
                log |-> Append(done.log, Ev("close", NULL)),
                files |-> (files + 1) - 1]

BridgeLoadScript(table, order, opened, isS, ldS, files) ==
  IF ~opened
  THEN [result |-> FALSE, log |-> <<>>, files |-> files]
  ELSE LET info == [success |-> FALSE, log |-> <<Ev("open", NULL)>>]
           done == HashTableEnumerate(table, order, "_seTryLoad", info,
                                   <<isS, ldS>>)
       IN [result |-> done.success,
           log |-> Append(done.log, Ev("close", NULL)),
           files |-> (files + 1) - 1]

BridgeLookupSymbol(table, order, sym, cur) ==
  LET info == [success |-> FALSE, out |-> cur, log |-> <<>>]
      done == HashTableEnumerate(table, order, "_seLookupSymbol", info, sym)
  IN [result |-> done.success, out |-> done.out, log |-> done.log]

\* ----------------------------------------------------------------- actions
\* The host may call into the bridge: the bridge exists and no call is in
\* progress.
Callable == alive /\ op.kind = "idle"

\* The call in progress returns to the host.
Return ==
  /\ op.kind # "idle"
  /\ op' = NoOp
  /\ calls' = <<>>
  /\ UNCHANGED <<alive, engines, debugger, bridge, out, openFiles, status>>
  /\ UNCHANGED <<addrVars, regVars, memVars>>

mScriptBridgeDestroy ==
  /\ Callable
  /\ \E order \in Orders(engines) :
       LET r == BridgeDestroy(engines, order)
       IN /\ calls' = r.log
          /\ engines' = r.table
          /\ op' = [NoOp EXCEPT !.kind = "destroy", !.order = order,
                                !.before = engines]
  /\ alive' = FALSE
  /\ UNCHANGED <<debugger, bridge, out, openFiles, status>>
  /\ UNCHANGED <<addrVars, regVars, memVars>>

mScriptBridgeInstallEngine ==
  /\ Callable
  /\ \E se \in Engines, initOk \in BOOLEAN, freesOld \in BOOLEAN :
       LET r == BridgeInstallEngine(engines, se, initOk, freesOld)
           name == EngineName(se)
           old == IF name \in DOMAIN engines THEN engines[name] ELSE NULL
       IN /\ engines' = r.table
          /\ calls' = r.log
          /\ op' = [NoOp EXCEPT !.kind = "install", !.arg = se,
                                !.result = initOk, !.before = engines]
          /\ status' = [e \in Engines |->
                          IF e = se
                          THEN IF initOk THEN "installed"
                               ELSE IF status[e] = "installed" THEN "installed"
                               ELSE "rejected"
                          ELSE IF initOk /\ e = old THEN "replaced"
                          ELSE status[e]]
  /\ UNCHANGED <<alive, debugger, bridge, out, openFiles>>
  /\ UNCHANGED <<addrVars, regVars, memVars>>

SetDebugger(b, d) ==
  /\ Callable
  /\ LET r == BridgeSetDebugger(debugger, bridge, b, d)
     IN /\ debugger' = r.debugger
        /\ bridge' = r.bridge
        /\ calls' = r.log
  /\ op' = [NoOp EXCEPT !.kind = "setDebugger", !.arg = d, !.order = <<b>>,
                        !.ans1 = debugger, !.ans2 = bridge]
  /\ UNCHANGED <<alive, engines, out, openFiles, status>>
  /\ UNCHANGED <<addrVars, regVars, memVars>>

mScriptBridgeSetDebugger == \E d \in Debuggers \cup {NULL} : SetDebugger(sb, d)

mScriptBridgeDebuggerEntered ==
  /\ Callable
  /\ \E order \in Orders(engines) :
       /\ calls' = BridgeDebuggerEntered(engines, order)
       /\ op' = [NoOp EXCEPT !.kind = "debuggerEntered", !.order = order,
                             !.before = engines]
  /\ UNCHANGED <<alive, engines, debugger, bridge, out, openFiles, status>>
  /\ UNCHANGED <<addrVars, regVars, memVars>>

mScriptBridgeRun ==
  /\ Callable
  /\ \E order \in Orders(engines) :
       /\ calls' = BridgeRun(engines, order)
       /\ op' = [NoOp EXCEPT !.kind = "run", !.order = order,
                             !.before = engines]
  /\ UNCHANGED <<alive, engines, debugger, bridge, out, openFiles, status>>
  /\ UNCHANGED <<addrVars, regVars, memVars>>

\* What the isScript (or loadScript) hooks of the installed engines may
\* answer in one call.  When the path cannot be opened there is no handle to
\* offer, and the answers are fixed to false.
LoadAnswers(table, opened) ==
  IF opened THEN [Range(table) -> BOOLEAN]
  ELSE {[e \in Range(table) |-> FALSE]}

mScriptBridgeLoadScript ==
  /\ Callable
  /\ \E opened \in BOOLEAN, order \in Orders(engines) :
     \E isS \in LoadAnswers(engines, opened),
        ldS \in LoadAnswers(engines, opened) :
       LET r == BridgeLoadScript(engines, order, opened, isS, ldS, openFiles)
       IN /\ calls' = r.log
          /\ openFiles' = r.files
          /\ op' = [NoOp EXCEPT !.kind = "loadScript", !.opened = opened,
                                !.result = r.result, !.order = order,
                                !.ans1 = isS, !.ans2 = ldS,
                                !.before = engines]
  /\ UNCHANGED <<alive, engines, debugger, bridge, out, status>>
  /\ UNCHANGED <<addrVars, regVars, memVars>>

mScriptBridgeLookupSymbol ==
  /\ Callable
  /\ \E order \in Orders(engines),
        sym \in [Range(engines) -> Values \cup {NoSymbol}] :
       LET r == BridgeLookupSymbol(engines, order, sym, out)
       IN /\ calls' = r.log
          /\ out' = r.out
          /\ op' = [NoOp EXCEPT !.kind = "lookupSymbol", !.arg = out,
                                !.result = r.result, !.order = order,
                                !.ans1 = sym,
                                !.before = engines]
  /\ UNCHANGED <<alive, engines, debugger, bridge, openFiles, status>>
  /\ UNCHANGED <<addrVars, regVars, memVars>>

Next ==
  \/ mScriptBridgeDestroy
  \/ mScriptBridgeInstallEngine
  \/ mScriptBridgeSetDebugger
  \/ mScriptBridgeDebuggerEntered
  \/ mScriptBridgeRun
  \/ mScriptBridgeLoadScript
  \/ mScriptBridgeLookupSymbol
  \/ Return

Spec == Init /\ [][Next]_vars

\* ================================================================== claims
\* The engine the enumeration visits k-th in the most recent operation.
Visited(k) == op.before[op.order[k]]

\* The engine an event of the log is about.
Target(i) == calls[i][2]

IsLoad == op.kind = "loadScript" /\ op.opened

\* Positions of the loadScript calls that returned true.
Accepted == {i \in EventsOf(calls, "loadScript") : op.ans2[Target(i)]}

\* C1: in one loadScript call on an openable path the engines are offered the
\* handle in enumeration order; loadScript is invoked only right after that
\* engine's isScript returned true; once an engine has accepted, no isScript
\* or loadScript of any engine follows; a refusal or a failed load does not
\* stop the scan; the call returns true exactly when some engine accepted.
C1_LoadStopsAtFirstAccept ==
  IsLoad =>
    LET isIdx == EventsOf(calls, "isScript")
        ldIdx == EventsOf(calls, "loadScript")
        n == Cardinality(isIdx)
    IN /\ n <= Len(op.order)
       /\ \A i \in isIdx :
            Target(i) = Visited(Cardinality({j \in isIdx : j <= i}))
       /\ \A i \in ldIdx :
            /\ i - 1 \in isIdx
            /\ Target(i - 1) = Target(i)
            /\ op.ans1[Target(i)]
       /\ \A i \in isIdx :
            op.ans1[Target(i)] => (i + 1 \in ldIdx /\ Target(i + 1) = Target(i))
       /\ \A i \in Accepted : \A j \in isIdx \cup ldIdx : j <= i
       /\ Accepted = {} => n = Len(op.order)
       /\ op.result <=> Accepted # {}

\* C1 witness: of three installed engines the first one visited recognised
\* the script but failed to load it, the second accepted it, and the third,
\* which would have accepted it too, was never asked.
C1_Witness ==
  /\ IsLoad
  /\ Len(op.order) = 3
  /\ op.ans1[Visited(1)] /\ ~op.ans2[Visited(1)]
  /\ op.ans1[Visited(2)] /\ op.ans2[Visited(2)]
  /\ op.ans1[Visited(3)] /\ op.ans2[Visited(3)]
  /\ op.result
  /\ Cardinality(EventsOf(calls, "isScript")) = 2
  /\ Cardinality(EventsOf(calls, "loadScript")) = 2

\* C2: loadScript on a path that cannot be opened returns false and invokes
\* no hook of any installed engine, whatever engines are installed.
C2_UnopenablePathConsultsNoEngine ==
  (op.kind = "loadScript" /\ ~op.opened) =>
    /\ ~op.result
    /\ calls = <<>>
    /\ openFiles = 0

\* C2 witness: the path could not be opened while three engines were
\* installed.
C2_Witness ==
  /\ op.kind = "loadScript"
  /\ ~op.opened
  /\ Cardinality(DOMAIN op.before) = 3
  /\ Len(op.order) = 3

\* C3: the result of loadScript does not depend on the enumeration order: it
\* is true iff some installed engine answers isScript=true and
\* loadScript=true, and every other order of the same engines with the same
\* answers gives the same result.
C3_LoadResultOrderIndependent ==
  IsLoad =>
    /\ op.result <=> \E e \in Range(op.before) : op.ans1[e] /\ op.ans2[e]
    /\ \A o2 \in Orders(op.before) :
         BridgeLoadScript(op.before, o2, TRUE, op.ans1, op.ans2, 0).result
           = op.result

\* C3 witness: engine A (visited first) reports isScript=false, engine B
\* reports isScript=true and loadScript=true, and the call returned true.
C3_Witness ==
  /\ IsLoad
  /\ Len(op.order) = 2
  /\ ~op.ans1[Visited(1)]
  /\ op.ans1[Visited(2)] /\ op.ans2[Visited(2)]
  /\ op.result

\* C4: a loadScript call that opened the resource closes the handle exactly
\* once, after every isScript/loadScript call of that call, whether an engine
\* accepted, all declined or none is installed; no handle stays open.
C4_HandleClosedOnce ==
  /\ openFiles = 0
  /\ IsLoad =>
       /\ Cardinality(EventsOf(calls, "open")) = 1
       /\ calls[1] = Ev("open", NULL)
       /\ EventsOf(calls, "close") = {Len(calls)}
       /\ \A i \in EventsOf(calls, "isScript") \cup EventsOf(calls, "loadScript") :
            1 < i /\ i < Len(calls)

\* C4 witness: a call in which one engine declined and another accepted.
C4_Witness ==
  /\ IsLoad
  /\ op.result
  /\ Cardinality(EventsOf(calls, "isScript")) = 2
  /\ calls[Len(calls)] = Ev("close", NULL)

\* C5: lookupSymbol returns the first successful resolution: the engines are
\* asked in enumeration order until one reports success and none is asked
\* after it; the value left in out is the one that engine wrote (out is left
\* alone when none resolves the name); the call returns true iff some engine
\* reported success, and false when no engine is installed.
C5_LookupFirstSuccess ==
  (op.kind = "lookupSymbol") =>
    LET n == Len(calls)
        hit == {i \in DOMAIN calls : op.ans1[Target(i)] # NoSymbol}
    IN /\ n <= Len(op.order)
       /\ \A i \in DOMAIN calls : calls[i] = Ev("lookupSymbol", Visited(i))
       /\ \A i \in hit : i = n
       /\ hit = {} => n = Len(op.order)
       /\ op.result <=> hit # {}
       /\ op.result <=> \E e \in Range(op.before) : op.ans1[e] # NoSymbol
       /\ \A i \in hit : out = op.ans1[Target(i)]
       /\ hit = {} => out = op.arg
       /\ op.before = EmptyTable => ~op.result

\* C5 witness: three engines installed; the first asked does not know the
\* symbol, the second resolves it, the third would have resolved it to a
\* different value and is not asked.
C5_Witness ==
  /\ op.kind = "lookupSymbol"
  /\ Len(op.order) = 3
  /\ op.ans1[Visited(1)] = NoSymbol
  /\ op.ans1[Visited(2)] = 1
  /\ op.ans1[Visited(3)] = 0
  /\ op.arg = 0
  /\ op.result
  /\ out = 1
  /\ Len(calls) = 2

\* C6: each call to run() invokes the run hook of every currently installed
\* engine exactly once and invokes nothing else; engines that are not
\* installed are not invoked.  run() is callable whatever the earlier
\* loadScript and lookupSymbol calls returned.
C6_RunEveryEngineOnce ==
  (op.kind = "run") =>
    /\ \A e \in Engines :
         Cardinality({i \in DOMAIN calls : calls[i] = Ev("run", e)})
           = IF e \in Range(op.before) THEN 1 ELSE 0
    /\ \A i \in DOMAIN calls : calls[i][1] = "run"
    /\ Len(calls) = Cardinality(DOMAIN op.before)
    /\ engines = op.before

\* C6 witness: run() with two engines installed and one engine, whose init
\* had failed, not installed.
C6_Witness ==
  /\ op.kind = "run"
  /\ Len(calls) = 2
  /\ \E e \in Engines : status[e] = "rejected"

\* C7: an engine whose init hook reports failure in installEngine is not
\* registered: the failed install leaves the table as it was and invokes no
\* other hook, the engine is in the table in no later state, and no call of
\* loadScript, lookupSymbol, run, debuggerEntered or destroy invokes any of
\* its isScript, loadScript, lookupSymbol, run, debuggerEntered or deinit
\* hooks.  (status[e] = "rejected": e's init failed while e was not in the
\* table, and e has not been installed since.)
C7_RejectedEngineNeverCalled ==
  [][/\ (op'.kind = "install" /\ ~op'.result) =>
          /\ engines' = engines
          /\ calls' = <<Ev("init", op'.arg)>>
     /\ \A e \in Engines : status'[e] = "rejected" => e \notin Range(engines')
     /\ \A i \in DOMAIN calls' :
          calls'[i][1] \in EngineHooks => status[calls'[i][2]] # "rejected"
    ]_vars

\* C7 witness: run() reaches two installed engines while a third engine,
\* whose init had failed, stays rejected.
C7_Witness ==
  /\ op.kind = "run"
  /\ Len(calls) = 2
  /\ \E e \in Engines :
       /\ status[e] = "rejected"
       /\ EngineName(e) \notin DOMAIN engines

\* The hooks through which the bridge delivers events to installed engines.
EventHooks == {"run", "isScript", "loadScript", "lookupSymbol", "debuggerEntered"}

\* C8: the registry holds at most one engine per name, each under the name
\* it reports; a successful install of an engine puts it under its name,
\* replacing the engine that held that name and touching no other entry; a
\* replaced engine receives no run, loadScript (isScript/loadScript),
\* lookupSymbol or debuggerEntered event.
C8_OneEnginePerName ==
  [][/\ \A k \in DOMAIN engines' : EngineName(engines'[k]) = k
     /\ \A e1, e2 \in Range(engines') :
          EngineName(e1) = EngineName(e2) => e1 = e2
     /\ (op'.kind = "install" /\ op'.result) =>
          LET name == EngineName(op'.arg)
          IN /\ DOMAIN engines' = DOMAIN engines \cup {name}
             /\ engines'[name] = op'.arg
             /\ \A k \in DOMAIN engines \ {name} : engines'[k] = engines[k]
     /\ \A e \in Engines : status'[e] = "replaced" => e \notin Range(engines')
     /\ \A i \in DOMAIN calls' :
          calls'[i][1] \in EventHooks => status[calls'[i][2]] # "replaced"
    ]_vars

\* C8 witness: two engines of the same name were both initialised; the later
\* one holds the name, the earlier one is replaced, and a run() has reached
\* the later one.
C8_Witness ==
  /\ op.kind = "run"
  /\ \E e1, e2 \in Engines :
       /\ e1 # e2
       /\ EngineName(e1) = EngineName(e2)
       /\ status[e1] = "replaced"
       /\ status[e2] = "installed"
       /\ \E i \in DOMAIN calls : calls[i] = Ev("run", e2)

\* C9: destroying the registry invokes the deinit hook of every engine
\* registered at that moment exactly once, and of no other engine, and then
\* releases the table: the release is the last step, no hook follows it, and
\* no call reaches an engine once the registry is destroyed.
C9_DestroyDeinitsEveryEngine ==
  /\ (op.kind = "destroy") =>
       /\ \A e \in Engines :
            Cardinality({i \in DOMAIN calls : calls[i] = Ev("deinit", e)})
              = IF e \in Range(op.before) THEN 1 ELSE 0
       /\ EventsOf(calls, "free") = {Len(calls)}
       /\ \A i \in DOMAIN calls : i < Len(calls) => calls[i][1] = "deinit"
       /\ engines = EmptyTable
       /\ ~alive
  /\ ~alive => (op.kind \in {"destroy", "idle"} /\ engines = EmptyTable)

\* C9 witness: a registry holding three engines is destroyed.
C9_Witness ==
  /\ op.kind = "destroy"
  /\ Cardinality(DOMAIN op.before) = 3
  /\ Len(calls) = 4

\* C10: for one registry and any sequence of setDebugger calls (NULL
\* included) the association is bidirectional and single: the registry's
\* debugger is d exactly when d's bridge is the registry, at most one
\* debugger points back at it, setting the debugger already set changes
\* nothing, and a replacement clears the old debugger's back-reference
\* before the new debugger is linked.
C10_DebuggerAssociation ==
  /\ \A d \in Debuggers : debugger[sb] = d <=> bridge[d] = sb
  /\ Cardinality({d \in Debuggers : bridge[d] = sb}) <= 1
  /\ (op.kind = "setDebugger") =>
       LET old == op.ans1[sb]
           new == op.arg
       IN /\ debugger[sb] = new
          /\ new = old =>
               /\ calls = <<>>
               /\ debugger = op.ans1
               /\ bridge = op.ans2
          /\ (new # old /\ old # NULL) =>
               /\ calls[1] = Ev("unlink", old)
               /\ bridge[old] = NULL
               /\ \A i \in EventsOf(calls, "set") \cup EventsOf(calls, "link") :
                    i > 1
          /\ (new # old /\ new # NULL) =>
               /\ calls[Len(calls)] = Ev("link", new)
               /\ bridge[new] = sb

\* C10 witness: a debugger is replaced by another one.
C10_Witness ==
  /\ op.kind = "setDebugger"
  /\ op.ans1[sb] = 1
  /\ op.arg = 2
  /\ bridge[1] = NULL
  /\ bridge[2] = sb

\* ========================================================= region adapters
\* struct mScriptMemoryAdapter and its script methods (read8/16/32,
\* readRange, write8/16/32).  The machine words are WordBits wide: the code
\* computes in uint32_t, the model in a narrower word of the same arithmetic
\* (every sum and difference is reduced modulo Word).

WordBits == 16
MaxSize == 4       \* largest end - start of the small regions
MaxOffset == 9     \* small offsets a script passes
MaxLength == 3     \* largest length passed to readRange

Word == 2 ^ WordBits

\* uint32_t arithmetic.
U32(x) == x % Word

\* The conversion of a uint32_t to int (`int segment = ...`).
ToInt(x) == IF x >= Word \div 2 THEN x - Word ELSE x

\* The banked region of the specification's example: start 0, end 0x4000,
\* segmentStart 0x2000.
BankedExample == [start |-> 0, end |-> 16384, segmentStart |-> 8192]

\* struct mCoreMemoryBlock, the fields the adapter uses.  segmentStart = 0
\* means the region has no fixed prefix.  The regions are well formed
\* (start < end, start <= segmentStart < end when set) and their banks are
\* at least two bytes long.
SmallBlocks ==
  {b \in [start : {0, MaxSize}, end : 0 .. 2 * MaxSize,
          segmentStart : 0 .. 2 * MaxSize] :
     /\ b.end - b.start \in 2 .. MaxSize
     /\ \/ b.segmentStart = 0
        \/ b.start <= b.segmentStart /\ b.segmentStart <= b.end - 2}

Blocks == SmallBlocks \cup {BankedExample}

\* The adapter-relative offsets scripts pass: small ones, the ones of the
\* example, and the last ones of the word.
Offsets ==
  (0 .. MaxOffset)
    \cup {BankedExample.segmentStart - 1, BankedExample.segmentStart,
          BankedExample.end - 1, BankedExample.end}
    \cup {Word - 2, Word - 1}

\* What the machine's raw read accessors return (the machine's memory; its
\* code is not part of the bridge).
RawRead(address, segment) == (address + 3 * segment) % 256

CALCULATE_SEGMENT_INFO_noShrink(block) ==
  [segmentSize |-> U32(block.end - block.start),
   segmentStart |-> U32(block.segmentStart - block.start)]

CALCULATE_SEGMENT_INFO(block) ==
  LET size == U32(block.end - block.start)
      segmentStart == U32(block.segmentStart - block.start)
  IN [segmentSize |-> IF block.segmentStart # 0
                      THEN U32(size - segmentStart) ELSE size,
      segmentStart |-> segmentStart]

CALCULATE_SEGMENT_ADDRESS_noStart(block, info, address) ==
  LET segment == ToInt(address \div info.segmentSize)
      a == address % info.segmentSize
  IN [segmentAddress |-> IF block.segmentStart # 0 /\ segment # 0
                         THEN U32(a + info.segmentStart) ELSE a,
      segment |-> segment]

CALCULATE_SEGMENT_ADDRESS_anyBank(block, info, address) ==
  LET segment == ToInt(address \div info.segmentSize)
      a == U32((address % info.segmentSize) + block.start)
  IN [segmentAddress |-> IF block.segmentStart # 0
                         THEN U32(a + info.segmentStart) ELSE a,
      segment |-> segment]

CALCULATE_SEGMENT_ADDRESS_noWrap(block, info, address) ==
  LET segment == ToInt(address \div info.segmentSize)
      a == U32(address + block.start)
  IN [segmentAddress |-> IF block.segmentStart # 0 /\ segment # 0
                         THEN U32(a + info.segmentStart) ELSE a,
      segment |-> segment]

CALCULATE_SEGMENT_ADDRESS(block, info, address) ==
  LET segment == ToInt(address \div info.segmentSize)
      a == U32((address % info.segmentSize) + block.start)
  IN [segmentAddress |-> IF block.segmentStart # 0 /\ segment # 0
                         THEN U32(a + info.segmentStart) ELSE a,
      segment |-> segment]

\* One call of a raw accessor of the machine: the accessor, and the
\* arguments it receives as its address and as its segment (the second and
\* third arguments of rawReadN and rawWriteN).
RawCall(fn, address, segment) ==
  [fn |-> fn, address |-> address, segment |-> segment]

\* The body the three reads share; `fn` is the raw accessor they call.
AdapterRead(fn, block, address) ==
  LET info == CALCULATE_SEGMENT_INFO(block)
      t == CALCULATE_SEGMENT_ADDRESS(block, info, address)
  IN [raw |-> <<RawCall(fn, t.segmentAddress, t.segment)>>,
      result |-> RawRead(t.segmentAddress, t.segment)]

mScriptMemoryAdapterRead8(block, address) ==
  AdapterRead("rawRead8", block, address)

mScriptMemoryAdapterRead16(block, address) ==
  AdapterRead("rawRead16", block, address)

mScriptMemoryAdapterRead32(block, address) ==
  AdapterRead("rawRead32", block, address)

\* The loop of readRange from index i on: the raw reads it makes.
RECURSIVE ReadRangeLoop(_, _, _, _, _)
ReadRangeLoop(block, info, address, i, length) ==
  IF i >= length THEN <<>>
  ELSE LET t == CALCULATE_SEGMENT_ADDRESS(block, info, address)
       IN <<RawCall("rawRead8", t.segmentAddress, t.segment)>>
            \o ReadRangeLoop(block, info, U32(address + 1), i + 1, length)

mScriptMemoryAdapterReadRange_translateOnce(block, address, length) ==
  LET info == CALCULATE_SEGMENT_INFO(block)
      t == CALCULATE_SEGMENT_ADDRESS(block, info, address)
      raw == [i \in 1 .. length |->
                RawCall("rawRead8", U32(t.segmentAddress + i - 1), t.segment)]
  IN [raw |-> raw,
      result |-> [i \in 1 .. length |->
                    RawRead(raw[i].address, raw[i].segment)]]

mScriptMemoryAdapterReadRange(block, address, length) ==
  LET info == CALCULATE_SEGMENT_INFO(block)
      raw == ReadRangeLoop(block, info, address, 0, length)
  IN [raw |-> raw,
      result |-> [i \in 1 .. Len(raw) |->
                    RawRead(raw[i].address, raw[i].segment)]]

\* The body the three writes share: the raw accessor receives the script's
\* offset as its address and the translated address as its segment (an int).
AdapterWrite(fn, block, address, value) ==
  LET info == CALCULATE_SEGMENT_INFO(block)
      t == CALCULATE_SEGMENT_ADDRESS(block, info, address)
  IN [raw |-> <<RawCall(fn, address, ToInt(t.segmentAddress))>>,
      result |-> value]

mScriptMemoryAdapterWrite8(block, address, value) ==
  AdapterWrite("rawWrite8", block, address, value)

mScriptMemoryAdapterWrite16(block, address, value) ==
  AdapterWrite("rawWrite16", block, address, value)

mScriptMemoryAdapterWrite32(block, address, value) ==
  AdapterWrite("rawWrite32", block, address, value)

\* ------------------------------------------------ region adapters: actions
\* A script calls a method of the region adapter; `access` records the call
\* and what the machine's raw accessors received.
Access(kind, address, length, r) ==
  [kind |-> kind, address |-> address, length |-> length,
   raw |-> r.raw, result |-> r.result]

\* A call on the adapter changes neither its descriptor nor the rest of the
\* program.
AddrFrame == UNCHANGED <<region, bridgeVars, regVars, memVars>>

Read8 ==
  /\ \E address \in Offsets :
       access' = Access("read8", address, 1,
                        mScriptMemoryAdapterRead8(region, address))
  /\ AddrFrame

Read16 ==
  /\ \E address \in Offsets :
       access' = Access("read16", address, 1,
                        mScriptMemoryAdapterRead16(region, address))
  /\ AddrFrame

Read32 ==
  /\ \E address \in Offsets :
       access' = Access("read32", address, 1,
                        mScriptMemoryAdapterRead32(region, address))
  /\ AddrFrame

ReadRange ==
  /\ \E address \in Offsets, length \in 0 .. MaxLength :
       access' = Access("readRange", address, length,
                        mScriptMemoryAdapterReadRange(region, address, length))
  /\ AddrFrame

Write8 ==
  /\ \E address \in Offsets, value \in Values :
       access' = Access("write8", address, 1,
                        mScriptMemoryAdapterWrite8(region, address, value))
  /\ AddrFrame

Write16 ==
  /\ \E address \in Offsets, value \in Values :
       access' = Access("write16", address, 1,
                        mScriptMemoryAdapterWrite16(region, address, value))
  /\ AddrFrame

Write32 ==
  /\ \E address \in Offsets, value \in Values :
       access' = Access("write32", address, 1,
                        mScriptMemoryAdapterWrite32(region, address, value))
  /\ AddrFrame

AddrInit ==
  /\ BridgeInit
  /\ out = NULL
  /\ RegIdle
  /\ MemIdle
  /\ region \in Blocks
  /\ access = NoAccess

AddrNext ==
  \/ Read8
  \/ Read16
  \/ Read32
  \/ ReadRange
  \/ Write8
  \/ Write16
  \/ Write32

SpecAddr == AddrInit /\ [][AddrNext]_vars

\* ================================================ claims: region adapters
IsRead == access.kind \in {"read8", "read16", "read32"}

IsWrite == access.kind \in {"write8", "write16", "write32"}

IsReadRange == access.kind = "readRange"

\* The raw accessor each read method forwards to.
RawOf(kind) ==
  CASE kind = "read8" -> "rawRead8"
    [] kind = "read16" -> "rawRead16"
    [] kind = "read32" -> "rawRead32"

\* C15 as the specification states it: for a region without segmentStart,
\* every offset translates to offset + start with segment 0.
C15_IdentityForEveryOffset ==
  IsRead /\ region.segmentStart = 0
    => /\ access.raw[1].address = access.address + region.start
       /\ access.raw[1].segment = 0

\* C15 (amended): for a region without segmentStart and an offset smaller
\* than the region's size end - start, the address passed to the machine is
\* offset + start and the segment passed is 0.
C15_IdentityWithinRegion ==
  IsRead /\ region.segmentStart = 0
         /\ access.address < region.end - region.start
    => /\ access.raw[1].address = access.address + region.start
       /\ access.raw[1].segment = 0

\* A read of the last byte of a region that does not start at 0.
C15_Witness ==
  /\ IsRead
  /\ region.segmentStart = 0
  /\ region.start > 0
  /\ access.address = region.end - region.start - 1

\* C16 as the specification states it: in the region start 0, end 0x4000,
\* segmentStart 0x2000 the offset 0x2000 translates to 0x4000.
C16_ExampleAsStated ==
  IsRead /\ region = BankedExample
    => /\ CALCULATE_SEGMENT_INFO(region).segmentSize = 8192
       /\ access.address = 8192
            => /\ access.raw[1].segment = 1
               /\ access.address % 8192 = 0
               /\ access.raw[1].address = 16384
       /\ access.address = 0
            => /\ access.raw[1].segment = 0
               /\ access.raw[1].address = 0

\* C16 (amended): in the region start 0, end 0x4000, segmentStart 0x2000 the
\* segmentSize is 0x2000; offset 0x2000 is segment 1 with segmentAddress 0
\* and translates to 0x2000; offset 0 is segment 0 and translates to 0.
C16_Example ==
  IsRead /\ region = BankedExample
    => /\ CALCULATE_SEGMENT_INFO(region).segmentSize = 8192
       /\ access.address = 8192
            => /\ access.raw[1].segment = 1
               /\ access.address % 8192 = 0
               /\ access.raw[1].address = 8192
       /\ access.address = 0
            => /\ access.raw[1].segment = 0
               /\ access.raw[1].address = 0

\* A read at offset 0x2000 of the example region.
C16_Witness ==
  /\ IsRead
  /\ region = BankedExample
  /\ access.address = 8192

\* segmentSize as the specification defines it.
SegmentSize(b) ==
  IF b.segmentStart # 0
  THEN (b.end - b.start) - (b.segmentStart - b.start)
  ELSE b.end - b.start

\* C17: read8/16/32 call the raw accessor of their width once, with
\* segment = offset div segmentSize and address = start + offset mod
\* segmentSize, plus segmentStart - start exactly when a segmentStart is set
\* and the segment is not 0.
C17_ReadsTranslate ==
  IsRead
    => LET segment == access.address \div SegmentSize(region)
           prefix == IF region.segmentStart # 0 /\ segment # 0
                     THEN region.segmentStart - region.start ELSE 0
       IN /\ Len(access.raw) = 1
          /\ access.raw[1].fn = RawOf(access.kind)
          /\ access.raw[1].segment = segment
          /\ access.raw[1].address =
               region.start + (access.address % SegmentSize(region)) + prefix

\* A read of bank 0 of a region whose banked part begins after a prefix.
C17_Witness ==
  /\ IsRead
  /\ region.segmentStart > region.start
  /\ access.raw[1].segment = 0
  /\ access.address > 0

\* C18: the (address, segment) pair a write passes to the raw write
\* accessor is the pair the read of the same offset passes to the raw read
\* accessor.
C18_WritesTranslateLikeReads ==
  IsWrite
    => LET r == mScriptMemoryAdapterRead8(region, access.address).raw[1]
       IN /\ access.raw[1].address = r.address
          /\ access.raw[1].segment = r.segment

\* C19: readRange(address, length) makes exactly `length` raw reads and
\* returns their values in order; the i-th is the read8 of offset
\* address + i reduced to the word, translated on its own; with length 0
\* nothing is read and the sequence is empty.
C19_ReadRangeElementwise ==
  IsReadRange
    => /\ Len(access.result) = access.length
       /\ Len(access.raw) = access.length
       /\ \A i \in 0 .. access.length - 1 :
            LET r == mScriptMemoryAdapterRead8(region,
                                               (access.address + i) % Word)
            IN /\ access.result[i + 1] = r.result
               /\ access.raw[i + 1] = r.raw[1]

\* A range that begins at the last offset of the word and so continues at
\* offset 0, in another bank.
C19_Witness ==
  /\ IsReadRange
  /\ access.address = Word - 1
  /\ access.length >= 2
  /\ access.raw[1].segment # access.raw[2].segment

\* ======================================================== register access
\* _mScriptCoreReadRegister and _mScriptCoreWriteRegister, the script
\* methods readRegister and writeRegister of the core.  The machine's own
\* readRegister / writeRegister are not part of the bridge: they are
\* modelled from their contract (an unknown name makes the read fail and the
\* write do nothing).

\* The register names a script passes: two the machine knows, one it does
\* not.  "r0" reads back what was written; "pc" is stored aligned.
RegNames == {"r0", "pc", "nosuch"}

KnownRegs == {"r0", "pc"}

SymmetricRegs == {"r0"}

\* int32_t, in the width of the model's word.
S32 == -(Word \div 2) .. (Word \div 2) - 1

\* The int32_t values scripts write and uninitialised locals may hold.
RegValues == {-(Word \div 2), -1, 0, 1, (Word \div 2) - 1}

\* core->readRegister(core, regName, &out): true and the value in *out, or
\* false with *out left as it was.
CoreReadRegister(regs, regName, local) ==
  IF regName \in DOMAIN regs
  THEN [ok |-> TRUE, out |-> regs[regName]]
  ELSE [ok |-> FALSE, out |-> local]

\* core->writeRegister(core, regName, &in).
CoreWriteRegister(regs, regName, in) ==
  IF regName \notin DOMAIN regs THEN regs
  ELSE [regs EXCEPT ![regName] =
          IF regName \in SymmetricRegs THEN in ELSE in - (in % 2)]

\* The value a script receives: absent (NULL) or an S32.
NoValue == [present |-> FALSE, value |-> NULL]

_mScriptCoreReadRegister_ignoreFailure(regs, regName, local) ==
  [present |-> TRUE, value |-> CoreReadRegister(regs, regName, local).out]

\* `local` is the content of the uninitialised `out` the machine writes to.
_mScriptCoreReadRegister(regs, regName, local) ==
  LET r == CoreReadRegister(regs, regName, local)
  IN IF ~r.ok THEN NoValue
     ELSE [present |-> TRUE, value |-> r.out]

_mScriptCoreWriteRegister(regs, regName, in) ==
  CoreWriteRegister(regs, regName, in)

\* The call of a script, without the call before it.
Call(c) == [kind |-> c.kind, name |-> c.name, in |-> c.in]

NoRegOp ==
  [kind |-> "idle", name |-> "nosuch", in |-> 0, result |-> NoValue,
   before |-> [n \in KnownRegs |-> 0],
   prev |-> [kind |-> "idle", name |-> "nosuch", in |-> 0]]

RegFrame == UNCHANGED <<bridgeVars, addrVars, memVars>>

ReadRegister ==
  /\ \E regName \in RegNames, junk \in RegValues :
       regop' = [kind |-> "readRegister", name |-> regName, in |-> 0,
                 result |-> _mScriptCoreReadRegister(registers, regName, junk),
                 before |-> registers, prev |-> Call(regop)]
  /\ UNCHANGED registers
  /\ RegFrame

WriteRegister ==
  /\ \E regName \in RegNames, in \in RegValues :
       /\ registers' = _mScriptCoreWriteRegister(registers, regName, in)
       /\ regop' = [kind |-> "writeRegister", name |-> regName, in |-> in,
                    result |-> NoValue,
                    before |-> registers, prev |-> Call(regop)]
  /\ RegFrame

RegInit ==
  /\ BridgeInit
  /\ out = NULL
  /\ AddrIdle
  /\ MemIdle
  /\ registers = [n \in KnownRegs |-> 0]
  /\ regop = NoRegOp

RegNext ==
  \/ ReadRegister
  \/ WriteRegister

SpecReg == RegInit /\ [][RegNext]_vars

\* ================================================= claims: register access
\* C20: readRegister of a name the machine does not know returns absent in
\* every state, writes to such a name leave the machine as it was, a known
\* name yields the int32 the machine holds, and a read that follows
\* writeRegister(name, v) on a register that reads back what is written
\* returns v.
C20_RegisterAccess ==
  /\ regop.kind = "readRegister" /\ regop.name \notin KnownRegs
       => ~regop.result.present
  /\ regop.kind = "writeRegister" /\ regop.name \notin KnownRegs
       => registers = regop.before
  /\ regop.kind = "readRegister" /\ regop.name \in KnownRegs
       => /\ regop.result.present
          /\ regop.result.value = registers[regop.name]
          /\ regop.result.value \in S32
  /\ ( /\ regop.kind = "readRegister"
       /\ regop.prev.kind = "writeRegister"
       /\ regop.prev.name = regop.name
       /\ regop.name \in SymmetricRegs )
       => regop.result.present /\ regop.result.value = regop.prev.in

\* A read of the unknown name right after a write to it, the machine
\* holding values written earlier.
C20_Witness ==
  /\ regop.kind = "readRegister"
  /\ regop.name \notin KnownRegs
  /\ regop.prev.kind = "writeRegister"
  /\ regop.prev.name = regop.name
  /\ registers["r0"] # 0

\* ============================================================== memory map
\* struct mScriptCoreAdapter: attachCore, detachCore and the memory map of
\* weak references to region adapters.  The script context's arena of weak
\* references and its global scope are not part of this file: they are
\* modelled from their contract (MakeWeakref issues the next id and stores
\* the value, ClearWeakref forgets the id, AccessWeakref of a forgotten id
\* is absent; SetGlobal stores the value behind a weak reference and clears
\* the weak reference of the binding it replaces).

MaxRefs == 9       \* weak reference ids a context issues

\* The machines (struct mCore) the host attaches.
Cores == {1, 2}

\* The programs a machine may have loaded.
Programs == {1, 2, 3}

\* struct mCoreMemoryBlock.
Descriptor(name, start, end, segmentStart) ==
  [internalName |-> name, start |-> start, end |-> end,
   segmentStart |-> segmentStart]

\* core->listMemoryBlocks: the block list of a machine with program p.
\* Internal names are unique within a list; "wram" is in every list, and
\* "cart0" is banked differently in programs 2 and 3.
ListMemoryBlocks(p) ==
  CASE p = 1 -> <<Descriptor("wram", 0, MaxSize, 0)>>
    [] p = 2 -> <<Descriptor("wram", 0, MaxSize, 0),
                  Descriptor("cart0", MaxSize, 2 * MaxSize, 0)>>
    [] p = 3 -> <<Descriptor("cart0", MaxSize, 2 * MaxSize, MaxSize + 1),
                  Descriptor("wram", 0, MaxSize, 0)>>

NoBlock == Descriptor("", 0, 0, 0)

\* The values the arena holds: a struct mScriptCoreAdapter (core, memory)
\* or a struct mScriptMemoryAdapter (core, block).
CoreAdapter(core, memory) ==
  [type |-> "mScriptCoreAdapter", core |-> core, block |-> NoBlock,
   memory |-> memory]

MemoryAdapter(core, block) ==
  [type |-> "mScriptMemoryAdapter", core |-> core, block |-> block,
   memory |-> EmptyTable]

\* The struct mScriptContext: its arena, its id counter, its global scope.
Context(wr, next, root) ==
  [weakrefs |-> wr, nextWeakref |-> next, rootScope |-> root]

\* A table without some of its keys.
Without(table, keys) == [k \in DOMAIN table \ keys |-> table[k]]

mScriptContextMakeWeakref(c, value) ==
  [c EXCEPT !.weakrefs = HashTableInsert(c.weakrefs, c.nextWeakref, value),
            !.nextWeakref = c.nextWeakref + 1]

mScriptContextClearWeakref(c, ref) ==
  [c EXCEPT !.weakrefs = Without(c.weakrefs, {ref})]

\* The referent of a weak reference, NULL when it was cleared.
mScriptContextAccessWeakref(c, ref) ==
  IF ref \in DOMAIN c.weakrefs THEN c.weakrefs[ref] ELSE NULL

\* The iteration of _clearMemoryMap over the entries not yet visited.
RECURSIVE ClearLoop(_, _, _)
ClearLoop(c, refs, clear) ==
  IF refs = {} THEN c
  ELSE LET ref == CHOOSE r \in refs : TRUE
       IN ClearLoop(IF clear THEN mScriptContextClearWeakref(c, ref) ELSE c,
                    refs \ {ref}, clear)

\* The context and the adapter after the call.
_clearMemoryMap(c, adapter, clear) ==
  [context |-> ClearLoop(c, Range(adapter.memory), clear),
   adapter |-> [adapter EXCEPT !.memory = EmptyTable]]

\* The loop of _rebuildMemoryMap from block i on.
RECURSIVE RebuildLoop(_, _, _, _, _)
RebuildLoop(c, adapter, blocks, i, nBlocks) ==
  IF i > nBlocks THEN [context |-> c, adapter |-> adapter]
  ELSE LET memadapter == MemoryAdapter(adapter.core, blocks[i])
           key == blocks[i].internalName
       IN RebuildLoop(mScriptContextMakeWeakref(c, memadapter),
                      [adapter EXCEPT !.memory =
                         HashTableInsert(adapter.memory, key, c.nextWeakref)],
                      blocks, i + 1, nBlocks)

_rebuildMemoryMap_skipLast(c, adapter, blocks) ==
  LET r == _clearMemoryMap(c, adapter, TRUE)
  IN RebuildLoop(r.context, r.adapter, blocks, 1, Len(blocks) - 1)

\* `blocks` is what adapter->core->listMemoryBlocks returns.
_rebuildMemoryMap(c, adapter, blocks) ==
  LET r == _clearMemoryMap(c, adapter, TRUE)
  IN RebuildLoop(r.context, r.adapter, blocks, 1, Len(blocks))

_mScriptCoreAdapterDeinit_invalidate(c, adapter) ==
  _clearMemoryMap(c, adapter, TRUE)

_mScriptCoreAdapterDeinit(c, adapter) ==
  _clearMemoryMap(c, adapter, FALSE)

\* What detachCore reports when it returns early.
NoAdapter == CoreAdapter(NULL, EmptyTable)

\* No adapter was destroyed.
NoDeinit ==
  [ran |-> FALSE, adapter |-> NoAdapter, weakrefs |-> EmptyTable,
   after |-> [context |-> Context(EmptyTable, 1, EmptyTable),
              adapter |-> NoAdapter]]

\* Clearing the weak reference of a global releases the value, and a core
\* adapter is then destroyed through its deinit: the adapter and the arena
\* the deinit found, and what it left.
GlobalDeinit(c, ref) ==
  LET value == mScriptContextAccessWeakref(c, ref)
      c1 == mScriptContextClearWeakref(c, ref)
  IN IF ref \in DOMAIN c.weakrefs /\ value.type = "mScriptCoreAdapter"
     THEN [ran |-> TRUE, adapter |-> value, weakrefs |-> c1.weakrefs,
           after |-> _mScriptCoreAdapterDeinit(c1, value)]
     ELSE NoDeinit

\* The context after the weak reference of a global was cleared.
ReleaseGlobal(c, ref) ==
  LET d == GlobalDeinit(c, ref)
  IN IF d.ran THEN d.after.context
     ELSE mScriptContextClearWeakref(c, ref)

mScriptContextSetGlobal(c, key, value) ==
  LET c1 == IF key \in DOMAIN c.rootScope
            THEN ReleaseGlobal(c, c.rootScope[key]) ELSE c
      c2 == mScriptContextMakeWeakref(c1, value)
  IN [c2 EXCEPT !.rootScope =
        HashTableInsert(c1.rootScope, key, c1.nextWeakref)]

mScriptContextRemoveGlobal(c, key) ==
  IF key \notin DOMAIN c.rootScope THEN c
  ELSE LET c1 == ReleaseGlobal(c, c.rootScope[key])
       IN [c1 EXCEPT !.rootScope = Without(c.rootScope, {key})]

\* The context after the call, the adapter it published, and the deinit of
\* the adapter SetGlobal replaced.
ContextAttachCore(c, core, blocks) ==
  LET r == _rebuildMemoryMap(c, CoreAdapter(core, EmptyTable), blocks)
  IN [context |-> mScriptContextSetGlobal(r.context, "emu", r.adapter),
      adapter |-> r.adapter,
      deinit |-> IF "emu" \in DOMAIN r.context.rootScope
                 THEN GlobalDeinit(r.context, r.context.rootScope["emu"])
                 ELSE NoDeinit]

\* The part of detachCore after the two lookups: the map of the published
\* adapter is cleared in place, then the binding is removed.
DetachFound(c, clear) ==
  LET ref == c.rootScope["emu"]
      r == _clearMemoryMap(c, mScriptContextAccessWeakref(c, ref), clear)
      c1 == [r.context EXCEPT !.weakrefs[ref] = r.adapter]
  IN [context |-> mScriptContextRemoveGlobal(c1, "emu"),
      found |-> TRUE, adapter |-> r.adapter,
      deinit |-> GlobalDeinit(c1, ref)]

ContextDetachCore_noInvalidate(c) ==
  IF "emu" \notin DOMAIN c.rootScope
  THEN [context |-> c, found |-> FALSE, adapter |-> NoAdapter,
        deinit |-> NoDeinit]
  ELSE DetachFound(c, FALSE)

\* The context after the call, whether the published adapter was found,
\* that adapter as _clearMemoryMap left it, and its deinit.
ContextDetachCore(c) ==
  IF "emu" \notin DOMAIN c.rootScope
  THEN [context |-> c, found |-> FALSE, adapter |-> NoAdapter,
        deinit |-> NoDeinit]
  ELSE IF c.rootScope["emu"] \notin DOMAIN c.weakrefs
  THEN [context |-> c, found |-> FALSE, adapter |-> NoAdapter,
        deinit |-> NoDeinit]
  ELSE DetachFound(c, TRUE)

\* ------------------------------------------------------ memory map: actions
\* The context as the operations see it.
Ctx == Context(weakrefs, nextWeakref, rootScope)

\* The state an operation started in.
Snapshot == [context |-> Ctx, issued |-> issued, program |-> program]

MemOp(kind, core, found, adapter, deinit) ==
  [kind |-> kind, core |-> core, found |-> found, adapter |-> adapter,
   deinit |-> deinit, before |-> Snapshot]

NoMemOp ==
  [kind |-> "idle", core |-> NULL, found |-> FALSE, adapter |-> NoAdapter,
   deinit |-> NoDeinit,
   before |-> [context |-> Context(EmptyTable, 1, EmptyTable),
               issued |-> {}, program |-> [c \in Cores |-> 1]]]

MemFrame == UNCHANGED <<bridgeVars, addrVars, regVars>>

SetContext(c) ==
  /\ weakrefs' = c.weakrefs
  /\ nextWeakref' = c.nextWeakref
  /\ rootScope' = c.rootScope

mScriptContextAttachCore ==
  /\ \E core \in Cores :
       LET blocks == ListMemoryBlocks(program[core])
           r == ContextAttachCore(Ctx, core, blocks)
       IN /\ nextWeakref + Len(blocks) <= MaxRefs
          /\ SetContext(r.context)
          /\ issued' = issued \cup Range(r.adapter.memory)
          /\ memop' = MemOp("attachCore", core, TRUE, r.adapter, r.deinit)
  /\ UNCHANGED program
  /\ MemFrame

mScriptContextDetachCore ==
  /\ LET r == ContextDetachCore(Ctx)
     IN /\ SetContext(r.context)
        /\ memop' = MemOp("detachCore", NULL, r.found, r.adapter, r.deinit)
  /\ UNCHANGED <<program, issued>>
  /\ MemFrame

\* The host loads another program into a machine: its block list changes.
LoadProgram ==
  /\ \E core \in Cores, p \in Programs :
       /\ p # program[core]
       /\ program' = [program EXCEPT ![core] = p]
       /\ memop' = MemOp("loadProgram", core, FALSE, NoAdapter, NoDeinit)
  /\ UNCHANGED <<weakrefs, nextWeakref, rootScope, issued>>
  /\ MemFrame

MemInit ==
  /\ BridgeInit
  /\ out = NULL
  /\ AddrIdle
  /\ RegIdle
  /\ program \in [Cores -> Programs]
  /\ weakrefs = EmptyTable
  /\ nextWeakref = 1
  /\ rootScope = EmptyTable
  /\ issued = {}
  /\ memop = NoMemOp

MemNext ==
  \/ mScriptContextAttachCore
  \/ mScriptContextDetachCore
  \/ LoadProgram

SpecMem == MemInit /\ [][MemNext]_vars

\* ====================================================== claims: memory map
\* A weak reference resolves while the arena still holds its value.
Resolves(ref) == ref \in DOMAIN weakrefs

EmuBound == "emu" \in DOMAIN rootScope /\ Resolves(rootScope["emu"])

\* The core adapter published as `emu`.
Published == weakrefs[rootScope["emu"]]

\* The weak references in the map of the adapter that was published when
\* the last operation began.
MapBefore ==
  LET b == memop.before.context
  IN IF "emu" \in DOMAIN b.rootScope
     THEN Range(b.weakrefs[b.rootScope["emu"]].memory)
     ELSE {}

\* C11: after a rebuild of the memory map (attachCore is the operation that
\* rebuilds it) no region handle issued before the rebuild resolves.
C11_RebuildInvalidatesIssued ==
  memop.kind = "attachCore"
    => \A ref \in memop.before.issued : ~Resolves(ref)

\* C12: whenever a core is attached, the map of the published adapter holds
\* exactly the descriptors of that machine's current block list.
C12_MapReflectsCurrentBlocks ==
  EmuBound
    => LET blocks == ListMemoryBlocks(program[Published.core])
       IN /\ DOMAIN Published.memory =
               {blocks[i].internalName : i \in 1 .. Len(blocks)}
          /\ \A i \in 1 .. Len(blocks) :
               LET ref == Published.memory[blocks[i].internalName]
               IN Resolves(ref) /\ weakrefs[ref].block = blocks[i]

\* C13: detachCore with `emu` bound leaves no weak reference of that
\* adapter's map resolvable, leaves the map empty and removes the binding;
\* with `emu` unbound it leaves the context as it was.
C13_DetachInvalidatesAndUnbinds ==
  memop.kind = "detachCore"
    => IF "emu" \in DOMAIN memop.before.context.rootScope
       THEN /\ memop.found
            /\ \A ref \in MapBefore : ~Resolves(ref)
            /\ memop.adapter.memory = EmptyTable
            /\ "emu" \notin DOMAIN rootScope
       ELSE /\ ~memop.found
            /\ Ctx = memop.before.context

\* A detachCore that found an adapter with two regions in its map.
C13_Witness ==
  /\ memop.kind = "detachCore"
  /\ memop.found
  /\ Cardinality(MapBefore) = 2

\* C14: after attachCore the published adapter wraps the attached machine
\* and its map has exactly the internal names of the machine's block list,
\* each under a weak reference of its own that was not issued before and
\* resolves to a region adapter holding that block and that machine; no
\* weak reference of the earlier map is in it.
C14_AttachBuildsMap ==
  memop.kind = "attachCore"
    => LET blocks == ListMemoryBlocks(memop.before.program[memop.core])
       IN /\ EmuBound
          /\ Published.core = memop.core
          /\ DOMAIN Published.memory =
               {blocks[i].internalName : i \in 1 .. Len(blocks)}
          /\ Cardinality(Range(Published.memory)) = Len(blocks)
          /\ Range(Published.memory) \cap MapBefore = {}
          /\ \A i \in 1 .. Len(blocks) :
               LET ref == Published.memory[blocks[i].internalName]
               IN /\ ref \notin DOMAIN memop.before.context.weakrefs
                  /\ ref \notin memop.before.issued
                  /\ Resolves(ref)
                  /\ weakrefs[ref].type = "mScriptMemoryAdapter"
                  /\ weakrefs[ref].block = blocks[i]
                  /\ weakrefs[ref].core = memop.core

\* An attachCore of a machine with two regions while the adapter of another
\* machine, with regions of its own, was published.
C14_Witness ==
  /\ memop.kind = "attachCore"
  /\ MapBefore # {}
  /\ memop.before.context.weakrefs[memop.before.context.rootScope["emu"]].core
       # memop.core
  /\ Cardinality(DOMAIN Published.memory) = 2

\* =================================== claims: region adapters, address range
\* start < end, and segmentStart unset or within the region.
WellFormed(b) ==
  /\ b.start < b.end
  /\ b.segmentStart = 0
       \/ (b.start <= b.segmentStart /\ b.segmentStart < b.end)

\* C23: for a well-formed region the segmentSize is positive and every
\* address read8/16/32 and readRange pass to the machine lies in
\* [start, end); with a segmentStart set, bank 0 gives an address in
\* [start, start + segmentSize) and a bank >= 1 one in [segmentStart, end).
C23_AddressWithinRegion ==
  (IsRead \/ IsReadRange) /\ WellFormed(region)
    => /\ CALCULATE_SEGMENT_INFO(region).segmentSize > 0
       /\ \A i \in 1 .. Len(access.raw) :
            LET a == access.raw[i].address
                segment == access.raw[i].segment
            IN /\ region.start <= a /\ a < region.end
               /\ region.segmentStart # 0 /\ segment = 0
                    => a < region.start + SegmentSize(region)
               /\ region.segmentStart # 0 /\ segment >= 1
                    => region.segmentStart <= a

\* A range that begins in bank 0 and continues in bank 1 of a region whose
\* banked part begins after a prefix.
C23_Witness ==
  /\ IsReadRange
  /\ region.segmentStart > region.start
  /\ access.length >= 2
  /\ access.raw[1].segment = 0
  /\ access.raw[2].segment = 1

\* =========================================== claims: memory map, teardown
\* C21: the deinit of a core adapter leaves the arena of weak references as
\* it found it and the adapter's map empty; when it runs in detachCore,
\* after the map was cleared with invalidation, it finds the map empty and
\* the arena stays as detachCore left it.
C21_DeinitLeavesWeakrefs ==
  memop.deinit.ran
    => /\ memop.deinit.after.adapter.memory = EmptyTable
       /\ memop.deinit.after.context.weakrefs = memop.deinit.weakrefs
       /\ memop.kind = "detachCore"
            => /\ memop.deinit.adapter.memory = EmptyTable
               /\ weakrefs = memop.deinit.weakrefs
               /\ \A ref \in MapBefore : ~Resolves(ref)

\* The deinit of an adapter with regions in its map, destroyed by
\* detachCore.
C21_Witness ==
  /\ memop.kind = "detachCore"
  /\ memop.deinit.ran
  /\ MapBefore # {}
  /\ weakrefs # EmptyTable

\* The weak references in the map of the adapter published as `emu`.
PublishedMap == IF EmuBound THEN Range(Published.memory) ELSE {}

\* C22: every weak reference to a region adapter issued by an adapter that
\* is no longer published as `emu` resolves to absent.
C22_UnpublishedHandlesAbsent ==
  \A ref \in issued \ PublishedMap : ~Resolves(ref)

\* ====================================================== several registries
\* mScriptBridgeSetDebugger called on any of the registries of the host.

\* mScriptBridgeGetDebugger.
BridgeGetDebugger(dbg, b) == dbg[b]

SetDebuggerOfAny ==
  \E b \in Bridges, d \in Debuggers \cup {NULL} : SetDebugger(b, d)

DbgNext ==
  \/ SetDebuggerOfAny
  \/ Return

SpecDbg == Init /\ [][DbgNext]_vars

\* C24: whenever the debugger of a registry is d, the bridge of d is that
\* registry, for every registry and every debugger.
C24_AssociationConsistent ==
  \A b \in Bridges, d \in Debuggers :
    BridgeGetDebugger(debugger, b) = d => bridge[d] = b

====
